---- MODULE Spec2Model ----
(***************************************************************************)
(* Model of scripts/analyze_traders.py: the five per-trader analyzers      *)
(* (estimate_pnl, analyze_timing, analyze_position_changes,                *)
(* analyze_market_impact, classify_traders) and the main() pipeline that   *)
(* loads a market document, runs them in order and emits one report.       *)
(*                                                                         *)
(* Numbers are exact rationals [n, d] in lowest terms with d > 0.  Python  *)
(* floats are modelled by their exact values; round() is round-half-even   *)
(* on the exact value (IEEE representation error is not modelled).         *)
(***************************************************************************)
EXTENDS Integers, Sequences, FiniteSets, TLC

VARIABLES doc, args, pc, trades, current_prob,
          pnl, timing, impact, positions, classifications, output, error

vars == <<doc, args, pc, trades, current_prob,
          pnl, timing, impact, positions, classifications, output, error>>

(***************************************************************************)
(* Exact rational arithmetic                                               *)
(***************************************************************************)
Abs(x) == IF x < 0 THEN -x ELSE x

RECURSIVE GCD(_, _)
GCD(a, b) == IF b = 0 THEN a ELSE GCD(b, a % b)

Rat(n, d) ==
    LET g == GCD(Abs(n), Abs(d))
        s == IF d < 0 THEN -1 ELSE 1
    IN  [n |-> (s * n) \div g, d |-> (s * d) \div g]

R(i) == [n |-> i, d |-> 1]
R0 == R(0)
R1 == R(1)

RAdd(a, b) == Rat(a.n * b.d + b.n * a.d, a.d * b.d)
RSub(a, b) == Rat(a.n * b.d - b.n * a.d, a.d * b.d)
RMul(a, b) == Rat(a.n * b.n, a.d * b.d)
RDiv(a, b) == Rat(a.n * b.d, a.d * b.n)
RLt(a, b) == a.n * b.d < b.n * a.d
RLe(a, b) == a.n * b.d <= b.n * a.d
RGt(a, b) == RLt(b, a)
RGe(a, b) == RLe(b, a)
RAbs(a) == [n |-> Abs(a.n), d |-> a.d]
RMax(a, b) == IF RGt(b, a) THEN b ELSE a

RECURSIVE Pow10(_)
Pow10(k) == IF k = 0 THEN 1 ELSE 10 * Pow10(k - 1)

\* Python round(x, k): nearest multiple of 10^-k, ties to the even one.
Round(x, k) ==
    LET s == Pow10(k)
        num == x.n * s
        q == num \div x.d
        rem == num % x.d
        up == \/ 2 * rem > x.d
              \/ 2 * rem = x.d /\ q % 2 = 1
    IN  Rat(IF up THEN q + 1 ELSE q, s)

(***************************************************************************)
(* Trade records.  A record of the input document carries the fields the   *)
(* analyzers read; `missing` names the keys absent from the JSON object    *)
(* (t['k'] raises KeyError for them, t.get('k') yields None).  amount,     *)
(* prob_before and prob_after are integers here (prob on the 0-100 scale). *)
(***************************************************************************)
Trade(u, a, o, pb, pa, ts, red, miss) ==
    [user |-> u, amount |-> a, outcome |-> o, prob_before |-> pb,
     prob_after |-> pa, timestamp |-> ts, is_redemption |-> red,
     missing |-> miss]

\* a variant of IsRedemption that never skips a record
IsRedemption_Never(t) == FALSE

\* t.get('is_redemption') is truthy
IsRedemption(t) == "is_redemption" \notin t.missing /\ t.is_redemption

\* some t[k], k in keys, raises KeyError
Raises(t, keys) == keys \cap t.missing # {}

\* a variant of SortedBy that returns the list as it came
SortedBy_Unsorted(xs, keys, desc) == xs

\* sorted(xs, key=..., reverse=desc): Python's sort is stable, also with
\* reverse=True.  keys[i] is the rational sort key of xs[i].
SortedBy(xs, keys, desc) ==
    LET n == Len(xs)
        Before(j, i) == IF desc THEN RGt(keys[j], keys[i]) ELSE RLt(keys[j], keys[i])
        rank == [i \in 1..n |->
                    1 + Cardinality({j \in 1..n :
                            Before(j, i) \/ (keys[j] = keys[i] /\ j < i)})]
    IN  [p \in 1..n |-> xs[CHOOSE i \in 1..n : rank[i] = p]]

\* d[user] for an insertion-ordered dict kept as a sequence of entries
\* with a `user` key; 0 when the key is absent.
IndexOf(d, u) ==
    IF \E i \in 1..Len(d) : d[i].user = u
    THEN CHOOSE i \in 1..Len(d) : d[i].user = u
    ELSE 0

\* xs[:n]
Slice(xs, n) ==
    LET len == Len(xs)
        stop == IF n >= 0 THEN (IF n < len THEN n ELSE len)
                ELSE (IF len + n > 0 THEN len + n ELSE 0)
    IN  SubSeq(xs, 1, stop)

(***************************************************************************)
(* estimate_pnl                                                            *)
(***************************************************************************)
PnlKeys == {"user", "amount", "prob_before", "outcome"}

NewPosition(u) ==
    [user |-> u, yes_shares |-> R0, no_shares |-> R0,
     yes_cost |-> R0, no_cost |-> R0, trades |-> 0]

\* a variant of Shares that prices NO shares at prob instead of 1 - prob
Shares_NoSideAtYesPrice(t) ==
    LET amount == R(t.amount)
        prob == Rat(t.prob_before, 100)
    IN  IF RGt(prob, R0) THEN RDiv(amount, prob) ELSE R0

\* the divisor of lines 56 and 60: the execution price of the traded side
Price(t) ==
    LET prob == Rat(t.prob_before, 100)
    IN  IF t.outcome = "YES" THEN prob ELSE RSub(R1, prob)

\* a variant of HasPrice that always divides
HasPrice_Always(t) == TRUE

\* the guards of lines 56 and 60: prob > 0 for YES, prob < 1 for NO
HasPrice(t) ==
    LET prob == Rat(t.prob_before, 100)
    IN  IF t.outcome = "YES" THEN RGt(prob, R0) ELSE RLt(prob, R1)

\* shares bought by one trade, lines 51-60
Shares(t) ==
    LET amount == R(t.amount)
    IN  IF HasPrice(t) THEN RDiv(amount, Price(t)) ELSE R0

\* a variant of FoldTrade that nets a trade against the cost of the other side
FoldTrade_Netting(pos, t) ==
    LET i0 == IndexOf(pos, t.user)
        d == IF i0 = 0 THEN Append(pos, NewPosition(t.user)) ELSE pos
        i == IF i0 = 0 THEN Len(d) ELSE i0
        p == d[i]
        q == IF t.outcome = "YES"
             THEN [p EXCEPT !.yes_shares = RAdd(@, Shares(t)),
                            !.yes_cost = RAdd(@, R(t.amount)),
                            !.no_cost = RSub(@, R(t.amount)),
                            !.trades = @ + 1]
             ELSE [p EXCEPT !.no_shares = RAdd(@, Shares(t)),
                            !.no_cost = RAdd(@, R(t.amount)),
                            !.yes_cost = RSub(@, R(t.amount)),
                            !.trades = @ + 1]
    IN  [d EXCEPT ![i] = q]

\* one iteration of the loop at lines 45-64 for a non-redemption trade
FoldTrade(pos, t) ==
    LET i0 == IndexOf(pos, t.user)
        d == IF i0 = 0 THEN Append(pos, NewPosition(t.user)) ELSE pos
        i == IF i0 = 0 THEN Len(d) ELSE i0
        p == d[i]
        q == IF t.outcome = "YES"
             THEN [p EXCEPT !.yes_shares = RAdd(@, Shares(t)),
                            !.yes_cost = RAdd(@, R(t.amount)),
                            !.trades = @ + 1]
             ELSE [p EXCEPT !.no_shares = RAdd(@, Shares(t)),
                            !.no_cost = RAdd(@, R(t.amount)),
                            !.trades = @ + 1]
    IN  [d EXCEPT ![i] = q]

\* the loop at lines 45-64 over the records lo..hi of the list.  The
\* loop is a left fold; it is evaluated by halving the range (the left half
\* first, then the right half from its result): the same fold, with recursion
\* depth log n.
RECURSIVE PnlLoop(_, _, _, _)
PnlLoop(acc, ts, lo, hi) ==
    IF lo > hi THEN acc
    ELSE IF lo = hi
         THEN (IF IsRedemption(ts[lo]) THEN acc ELSE FoldTrade(acc, ts[lo]))
         ELSE LET mid == (lo + hi) \div 2
                  left == PnlLoop(acc, ts, lo, mid)
              IN  IF Len(left) >= 0 THEN PnlLoop(left, ts, mid + 1, hi) ELSE left

PositionsAfter(ts, k) == PnlLoop(<<>>, ts, 1, k)

\* the result record of lines 68-92
PnlRecord(pos, cp) ==
    LET yes_value == RMul(pos.yes_shares, cp)
        yes_pnl == RSub(yes_value, pos.yes_cost)
        no_value == RMul(pos.no_shares, RSub(R1, cp))
        no_pnl == RSub(no_value, pos.no_cost)
        total_pnl == RAdd(yes_pnl, no_pnl)
        total_cost == RAdd(pos.yes_cost, pos.no_cost)
        roi == IF RGt(total_cost, R0)
               THEN RMul(RDiv(total_pnl, total_cost), R(100)) ELSE R0
    IN  [user |-> pos.user,
         yes_cost |-> Round(pos.yes_cost, 2),
         no_cost |-> Round(pos.no_cost, 2),
         total_cost |-> Round(total_cost, 2),
         yes_value |-> Round(yes_value, 2),
         no_value |-> Round(no_value, 2),
         estimated_pnl |-> Round(total_pnl, 2),
         roi_pct |-> Round(roi, 1),
         trade_count |-> pos.trades,
         position |-> IF RGt(pos.yes_cost, pos.no_cost) THEN "LONG" ELSE "SHORT"]

estimate_pnl_raises(ts) ==
    \E i \in 1..Len(ts) : ~IsRedemption(ts[i]) /\ Raises(ts[i], PnlKeys)

\* a division of estimate_pnl is evaluated with divisor 0 (lines 56, 60, 79)
estimate_pnl_zero_division(ts) ==
    LET pos == PositionsAfter(ts, Len(ts))
    IN  \/ \E i \in 1..Len(ts) :
              ~IsRedemption(ts[i]) /\ HasPrice(ts[i]) /\ Price(ts[i]) = R0
        \/ \E i \in 1..Len(pos) :
              LET total_cost == RAdd(pos[i].yes_cost, pos[i].no_cost)
              IN  RGt(total_cost, R0) /\ total_cost = R0

estimate_pnl(ts, cp) ==
    LET pos == PositionsAfter(ts, Len(ts))
        results == [i \in 1..Len(pos) |-> PnlRecord(pos[i], cp)]
    IN  SortedBy(results, [i \in 1..Len(results) |-> results[i].estimated_pnl], TRUE)

(***************************************************************************)
(* analyze_timing                                                          *)
(***************************************************************************)
\* sorted(trades, key=lambda x: x['timestamp'])
SortByTimestamp(ts) ==
    SortedBy(ts, [i \in 1..Len(ts) |-> R(ts[i].timestamp)], FALSE)

\* float('inf') as the initial first_trade_idx: -1 stands for "no index yet"
NewTiming(u) ==
    [user |-> u, first_trade_idx |-> -1, last_trade_idx |-> 0,
     early_trades |-> 0, mid_trades |-> 0, late_trades |-> 0, total |-> 0]

Q1Cutoff(total) == total \div 4
Q3Cutoff(total) == (total * 3) \div 4

\* a variant of Bucket whose early bucket includes the index q1
Bucket_InclusiveQ1(idx, total) ==
    IF idx <= Q1Cutoff(total) THEN "early"
    ELSE IF idx < Q3Cutoff(total) THEN "mid" ELSE "late"

\* lines 128-133; idx is the 0-based enumerate index
Bucket(idx, total) ==
    IF idx < Q1Cutoff(total) THEN "early"
    ELSE IF idx < Q3Cutoff(total) THEN "mid" ELSE "late"

\* one iteration of the loop at lines 120-133 for a non-redemption trade
FoldTiming(tt, t, idx, total) ==
    LET i0 == IndexOf(tt, t.user)
        d == IF i0 = 0 THEN Append(tt, NewTiming(t.user)) ELSE tt
        i == IF i0 = 0 THEN Len(d) ELSE i0
        e == d[i]
        b == Bucket(idx, total)
        f == [e EXCEPT
                !.total = @ + 1,
                !.first_trade_idx = IF @ = -1 \/ idx < @ THEN idx ELSE @,
                !.last_trade_idx = IF idx > @ THEN idx ELSE @,
                !.early_trades = IF b = "early" THEN @ + 1 ELSE @,
                !.mid_trades = IF b = "mid" THEN @ + 1 ELSE @,
                !.late_trades = IF b = "late" THEN @ + 1 ELSE @]
    IN  [d EXCEPT ![i] = f]

\* the loop at lines 120-133 over the records lo..hi of the list.  The
\* loop is a left fold; it is evaluated by halving the range (the left half
\* first, then the right half from its result): the same fold, with recursion
\* depth log n.
RECURSIVE TimingLoop(_, _, _, _)
TimingLoop(acc, ts, lo, hi) ==
    IF lo > hi THEN acc
    ELSE IF lo = hi
         THEN (IF IsRedemption(ts[lo]) THEN acc
               ELSE FoldTiming(acc, ts[lo], lo - 1, Len(ts)))
         ELSE LET mid == (lo + hi) \div 2
                  left == TimingLoop(acc, ts, lo, mid)
              IN  IF Len(left) >= 0 THEN TimingLoop(left, ts, mid + 1, hi) ELSE left

TimingAfter(st, k) == TimingLoop(<<>>, st, 1, k)

\* lines 137-139
TimingType(early, late) ==
    IF early > late THEN "EARLY" ELSE IF late > early THEN "LATE" ELSE "SPREAD"

TimingRecord(e, total) ==
    [user |-> e.user,
     timing_type |-> TimingType(e.early_trades, e.late_trades),
     first_trade_pct |-> Round(RMul(Rat(e.first_trade_idx, total), R(100)), 1),
     early_trades |-> e.early_trades,
     mid_trades |-> e.mid_trades,
     late_trades |-> e.late_trades]

analyze_timing_raises(ts) ==
    /\ ts # <<>>
    /\ \/ \E i \in 1..Len(ts) : Raises(ts[i], {"timestamp"})
       \/ \E i \in 1..Len(ts) : ~IsRedemption(ts[i]) /\ Raises(ts[i], {"user"})

\* the division of line 143 is evaluated with divisor 0
analyze_timing_zero_division(ts) ==
    /\ ts # <<>>
    /\ LET st == SortByTimestamp(ts)
       IN  TimingAfter(st, Len(st)) # <<>> /\ Len(st) = 0

\* The value returned: {} (a dict) on an empty list, else a list of rows.
analyze_timing(ts) ==
    IF ts = <<>> THEN [kind |-> "dict", rows |-> <<>>]
    ELSE LET st == SortByTimestamp(ts)
             tt == TimingAfter(st, Len(st))
         IN  [kind |-> "list",
              rows |-> [i \in 1..Len(tt) |-> TimingRecord(tt[i], Len(st))]]

(***************************************************************************)
(* analyze_position_changes                                                *)
(***************************************************************************)
PositionKeys == {"user", "outcome", "amount", "date", "prob_before"}

\* one iteration of the loop at lines 156-164 for a non-redemption trade
FoldHistory(th, t) ==
    LET h == [outcome |-> t.outcome, amount |-> t.amount, prob |-> t.prob_before]
        i0 == IndexOf(th, t.user)
    IN  IF i0 = 0
        THEN Append(th, [user |-> t.user, history |-> <<h>>])
        ELSE [th EXCEPT ![i0].history = Append(@, h)]

\* the loop at lines 156-164 over the records lo..hi of the list.  The
\* loop is a left fold; it is evaluated by halving the range (the left half
\* first, then the right half from its result): the same fold, with recursion
\* depth log n.
RECURSIVE HistoryLoop(_, _, _, _)
HistoryLoop(acc, ts, lo, hi) ==
    IF lo > hi THEN acc
    ELSE IF lo = hi
         THEN (IF IsRedemption(ts[lo]) THEN acc ELSE FoldHistory(acc, ts[lo]))
         ELSE LET mid == (lo + hi) \div 2
                  left == HistoryLoop(acc, ts, lo, mid)
              IN  IF Len(left) >= 0 THEN HistoryLoop(left, ts, mid + 1, hi) ELSE left

HistoryAfter(st, k) == HistoryLoop(<<>>, st, 1, k)

\* a variant of FlipState that never updates last_direction (line 177 dropped)
RECURSIVE FlipState_StaleDirection(_, _)
FlipState_StaleDirection(history, k) ==
    IF k = 1 THEN [flips |-> 0, last_direction |-> history[1].outcome]
    ELSE LET s == FlipState_StaleDirection(history, k - 1)
         IN  IF history[k].outcome # s.last_direction
             THEN [flips |-> s.flips + 1, last_direction |-> s.last_direction]
             ELSE s

\* the loop at lines 172-177 over history[1:], as a left fold; the state is
\* (flips, last_direction) after the first k entries of the history
RECURSIVE FlipState(_, _)
FlipState(history, k) ==
    IF k = 1 THEN [flips |-> 0, last_direction |-> history[1].outcome]
    ELSE LET s == FlipState(history, k - 1)
         IN  IF history[k].outcome # s.last_direction
             THEN [flips |-> s.flips + 1, last_direction |-> history[k].outcome]
             ELSE s

\* a variant of CountFlips that starts counting at 1 (the first trade counted)
CountFlips_FromOne(history) == FlipState(history, Len(history)).flips + 1

\* flips after the loop at lines 172-177
CountFlips(history) == FlipState(history, Len(history)).flips

RECURSIVE SumSeq(_)
SumSeq(xs) == IF xs = <<>> THEN 0 ELSE Head(xs) + SumSeq(Tail(xs))

SideOf(history, side) == SelectSeq(history, LAMBDA h : h.outcome = side)

\* lines 180-191 for one side
AvgEntry(history, side) ==
    LET hs == SideOf(history, side)
        volume == SumSeq([i \in 1..Len(hs) |-> hs[i].amount])
        weighted == SumSeq([i \in 1..Len(hs) |-> hs[i].prob * hs[i].amount])
    IN  IF volume > 0 THEN Rat(weighted, volume) ELSE R0

IsFlipper(flips) == flips >= 2

PositionRecord(e) ==
    LET history == e.history
        flips == CountFlips(history)
    IN  [user |-> e.user,
         trade_count |-> Len(history),
         flips |-> flips,
         is_flipper |-> IsFlipper(flips),
         avg_yes_entry_prob |-> Round(AvgEntry(history, "YES"), 1),
         avg_no_entry_prob |-> Round(AvgEntry(history, "NO"), 1),
         first_position |-> history[1].outcome,
         final_position |-> history[Len(history)].outcome]

analyze_position_changes_raises(ts) ==
    \/ \E i \in 1..Len(ts) : Raises(ts[i], {"timestamp"})
    \/ \E i \in 1..Len(ts) : ~IsRedemption(ts[i]) /\ Raises(ts[i], PositionKeys)

\* a division of lines 184, 189 is evaluated with divisor 0
analyze_position_changes_zero_division(ts) ==
    LET st == SortByTimestamp(ts)
        th == HistoryAfter(st, Len(st))
    IN  \E i \in 1..Len(th) : \E side \in {"YES", "NO"} :
            LET hs == SideOf(th[i].history, side)
                volume == SumSeq([k \in 1..Len(hs) |-> hs[k].amount])
            IN  ~(Len(th[i].history) < 2) /\ volume > 0 /\ volume = 0

\* a variant of analyze_position_changes without the skip of line 168
analyze_position_changes_KeepsAll(ts) ==
    LET st == SortByTimestamp(ts)
        th == HistoryAfter(st, Len(st))
        results == [i \in 1..Len(th) |-> PositionRecord(th[i])]
    IN  SortedBy(results, [i \in 1..Len(results) |-> R(results[i].flips)], TRUE)

analyze_position_changes(ts) ==
    LET st == SortByTimestamp(ts)
        th == HistoryAfter(st, Len(st))
        kept == SelectSeq(th, LAMBDA e : ~(Len(e.history) < 2))
        results == [i \in 1..Len(kept) |-> PositionRecord(kept[i])]
    IN  SortedBy(results, [i \in 1..Len(results) |-> R(results[i].flips)], TRUE)

(***************************************************************************)
(* analyze_market_impact                                                   *)
(***************************************************************************)
ImpactKeys == {"prob_after", "prob_before", "user"}

NewImpact(u) ==
    [user |-> u, total_price_impact |-> R0, trades |-> 0, biggest_move |-> R0]

\* a variant of TradeImpact without abs()
TradeImpact_Signed(t) == R(t.prob_after - t.prob_before)

\* line 219
TradeImpact(t) == RAbs(R(t.prob_after - t.prob_before))

\* one iteration of the loop at lines 215-224 for a non-redemption trade
FoldImpact(ti, t) ==
    LET i0 == IndexOf(ti, t.user)
        d == IF i0 = 0 THEN Append(ti, NewImpact(t.user)) ELSE ti
        i == IF i0 = 0 THEN Len(d) ELSE i0
        e == d[i]
        f == [e EXCEPT !.total_price_impact = RAdd(@, TradeImpact(t)),
                       !.trades = @ + 1,
                       !.biggest_move = RMax(@, TradeImpact(t))]
    IN  [d EXCEPT ![i] = f]

\* the loop at lines 215-224 over the records lo..hi of the list.  The
\* loop is a left fold; it is evaluated by halving the range (the left half
\* first, then the right half from its result): the same fold, with recursion
\* depth log n.
RECURSIVE ImpactLoop(_, _, _, _)
ImpactLoop(acc, ts, lo, hi) ==
    IF lo > hi THEN acc
    ELSE IF lo = hi
         THEN (IF IsRedemption(ts[lo]) THEN acc ELSE FoldImpact(acc, ts[lo]))
         ELSE LET mid == (lo + hi) \div 2
                  left == ImpactLoop(acc, ts, lo, mid)
              IN  IF Len(left) >= 0 THEN ImpactLoop(left, ts, mid + 1, hi) ELSE left

ImpactAfter(ts, k) == ImpactLoop(<<>>, ts, 1, k)

ImpactRecord(e) ==
    LET avg_impact == IF e.trades > 0
                      THEN RDiv(e.total_price_impact, R(e.trades)) ELSE R0
    IN  [user |-> e.user,
         total_impact_pct |-> Round(e.total_price_impact, 2),
         avg_impact_pct |-> Round(avg_impact, 2),
         biggest_move_pct |-> Round(e.biggest_move, 2),
         trade_count |-> e.trades]

analyze_market_impact_raises(ts) ==
    \E i \in 1..Len(ts) : ~IsRedemption(ts[i]) /\ Raises(ts[i], ImpactKeys)

\* the division of line 228 is evaluated with divisor 0
analyze_market_impact_zero_division(ts) ==
    LET ti == ImpactAfter(ts, Len(ts))
    IN  \E i \in 1..Len(ti) : ti[i].trades > 0 /\ ti[i].trades = 0

analyze_market_impact(ts) ==
    LET ti == ImpactAfter(ts, Len(ts))
        results == [i \in 1..Len(ti) |-> ImpactRecord(ti[i])]
    IN  SortedBy(results, [i \in 1..Len(results) |-> results[i].total_impact_pct], TRUE)

(***************************************************************************)
(* classify_traders                                                        *)
(***************************************************************************)
ClassifyKeys == {"user", "amount"}

\* line 277: the fixed activity threshold
ActivityThreshold == 20
\* line 267: the 0-based rank of the whale threshold in the descending volumes
WhaleRank == 10

NewStats(u) == [user |-> u, volume |-> 0, trades |-> 0]

\* one iteration of the loop at lines 251-256 for a non-redemption trade
FoldStats(st, t) ==
    LET i0 == IndexOf(st, t.user)
        d == IF i0 = 0 THEN Append(st, NewStats(t.user)) ELSE st
        i == IF i0 = 0 THEN Len(d) ELSE i0
    IN  [d EXCEPT ![i] = [@ EXCEPT !.volume = @ + t.amount, !.trades = @ + 1]]

\* the loop at lines 251-256 over the records lo..hi of the list.  The
\* loop is a left fold; it is evaluated by halving the range (the left half
\* first, then the right half from its result): the same fold, with recursion
\* depth log n.
RECURSIVE StatsLoop(_, _, _, _)
StatsLoop(acc, ts, lo, hi) ==
    IF lo > hi THEN acc
    ELSE IF lo = hi
         THEN (IF IsRedemption(ts[lo]) THEN acc ELSE FoldStats(acc, ts[lo]))
         ELSE LET mid == (lo + hi) \div 2
                  left == StatsLoop(acc, ts, lo, mid)
              IN  IF Len(left) >= 0 THEN StatsLoop(left, ts, mid + 1, hi) ELSE left

StatsAfter(ts, k) == StatsLoop(<<>>, ts, 1, k)

\* pnl_lookup.get(user, {}) then .get(field, default): lines 243, 260-262, 271
PnlField(pnl_data, u, field, default) ==
    LET hits == {i \in 1..Len(pnl_data) : pnl_data[i].user = u}
    IN  IF hits = {} THEN default
        ELSE pnl_data[CHOOSE i \in hits : \A j \in hits : j <= i][field]

\* line 263
YesPct(pnl_data, u) ==
    LET yes_cost == PnlField(pnl_data, u, "yes_cost", R0)
        total == PnlField(pnl_data, u, "total_cost", R1)
    IN  IF RGt(total, R0) THEN RMul(RDiv(yes_cost, total), R(100)) ELSE R(50)

Min(a, b) == IF a < b THEN a ELSE b

\* a variant of WhaleThreshold that reads one rank higher in the list
WhaleThreshold_RankAbove(volumes) ==
    IF volumes = <<>> THEN 0
    ELSE SortedBy(volumes, [i \in 1..Len(volumes) |-> R(volumes[i])], TRUE)
            [Min(WhaleRank - 1, Len(volumes) - 1) + 1]

\* lines 266-267; volumes is the list of per-trader volumes
WhaleThreshold(volumes) ==
    IF volumes = <<>> THEN 0
    ELSE SortedBy(volumes, [i \in 1..Len(volumes) |-> R(volumes[i])], TRUE)
            [Min(WhaleRank, Len(volumes) - 1) + 1]

\* a variant of IsWhale with a strict comparison
IsWhale_Strict(volume, whale_threshold) == volume > whale_threshold
\* line 275
IsWhale(volume, whale_threshold) == volume >= whale_threshold
\* a variant of IsActive with a strict comparison
IsActive_Strict(trade_count) == trade_count > ActivityThreshold
IsActive(trade_count) == trade_count >= ActivityThreshold
IsBull(yes_pct) == RGe(yes_pct, R(80))
IsBear(yes_pct) == RLe(yes_pct, R(20))
IsWinner(roi_pct) == RGt(roi_pct, R(50))
IsLoser(roi_pct) == RLt(roi_pct, R(-30))

\* a variant of Types that adds RETAIL whenever WHALE was not added
Types_RetailIfNotWhale(volume, trade_count, yes_pct, roi_pct, whale_threshold) ==
    LET t1 == IF IsWhale(volume, whale_threshold) THEN <<"WHALE">> ELSE <<>>
        t2 == IF IsActive(trade_count) THEN Append(t1, "ACTIVE") ELSE t1
        t3 == IF IsBull(yes_pct) THEN Append(t2, "BULL")
              ELSE IF IsBear(yes_pct) THEN Append(t2, "BEAR") ELSE t2
        t4 == IF IsWinner(roi_pct) THEN Append(t3, "WINNER")
              ELSE IF IsLoser(roi_pct) THEN Append(t3, "LOSER") ELSE t3
    IN  IF t1 = <<>> THEN Append(t4, "RETAIL") ELSE t4

\* lines 274-289
Types(volume, trade_count, yes_pct, roi_pct, whale_threshold) ==
    LET t1 == IF IsWhale(volume, whale_threshold) THEN <<"WHALE">> ELSE <<>>
        t2 == IF IsActive(trade_count) THEN Append(t1, "ACTIVE") ELSE t1
        t3 == IF IsBull(yes_pct) THEN Append(t2, "BULL")
              ELSE IF IsBear(yes_pct) THEN Append(t2, "BEAR") ELSE t2
        t4 == IF IsWinner(roi_pct) THEN Append(t3, "WINNER")
              ELSE IF IsLoser(roi_pct) THEN Append(t3, "LOSER") ELSE t3
    IN  IF t4 = <<>> THEN <<"RETAIL">> ELSE t4

ClassifyRecord(e, pnl_data, whale_threshold) ==
    LET yes_pct == YesPct(pnl_data, e.user)
        roi_pct == PnlField(pnl_data, e.user, "roi_pct", R0)
    IN  [user |-> e.user,
         types |-> Types(e.volume, e.trades, yes_pct, roi_pct, whale_threshold),
         volume |-> Round(R(e.volume), 2),
         trades |-> e.trades,
         yes_pct |-> Round(yes_pct, 1),
         estimated_pnl |-> PnlField(pnl_data, e.user, "estimated_pnl", R0),
         roi_pct |-> roi_pct]

classify_traders_raises(ts) ==
    \E i \in 1..Len(ts) : ~IsRedemption(ts[i]) /\ Raises(ts[i], ClassifyKeys)

\* the division of line 263 is evaluated with divisor 0
classify_traders_zero_division(ts, pnl_data) ==
    LET st == StatsAfter(ts, Len(ts))
    IN  \E i \in 1..Len(st) :
            LET total == PnlField(pnl_data, st[i].user, "total_cost", R1)
            IN  RGt(total, R0) /\ total = R0

classify_traders(ts, pnl_data) ==
    LET st == StatsAfter(ts, Len(ts))
        wt == WhaleThreshold([i \in 1..Len(st) |-> st[i].volume])
        results == [i \in 1..Len(st) |-> ClassifyRecord(st[i], pnl_data, wt)]
    IN  SortedBy(results, [i \in 1..Len(results) |-> results[i].volume], TRUE)

(***************************************************************************)
(* generate_viz.py: the classifier of the report renderer                  *)
(***************************************************************************)
\* generate_viz.py line 83: the trade count from which a trader is ACTIVE
VizActivityThreshold == 15
\* generate_viz.py line 141: the 0-based rank of the whale threshold
VizWhaleRank == 9

\* generate_viz.py lines 140-141 (generate_html); volumes is the list of
\* per-trader volumes
generate_html_whale_threshold(volumes) ==
    IF volumes = <<>> THEN 0
    ELSE SortedBy(volumes, [i \in 1..Len(volumes) |-> R(volumes[i])], TRUE)
            [Min(VizWhaleRank, Len(volumes) - 1) + 1]

\* generate_viz.py lines 78-93
classify_trader(volume, trades_, yes_pct, roi, whale_threshold) ==
    LET t1 == IF volume >= whale_threshold THEN <<"WHALE">> ELSE <<>>
        t2 == IF trades_ >= VizActivityThreshold THEN Append(t1, "ACTIVE")
              ELSE t1
        t3 == IF RGe(yes_pct, R(80)) THEN Append(t2, "BULL")
              ELSE IF RLe(yes_pct, R(20)) THEN Append(t2, "BEAR") ELSE t2
        t4 == IF RGt(roi, R(50)) THEN Append(t3, "WINNER")
              ELSE IF RLt(roi, R(-30)) THEN Append(t3, "LOSER") ELSE t3
    IN  IF t4 = <<>> THEN <<"RETAIL">> ELSE t4

(***************************************************************************)
(* main: the input document, the command line and the pipeline             *)
(***************************************************************************)
Selectors == {"all", "pnl", "timing", "impact", "classify"}

\* The document read by load_data.  kind "unreadable": open() raises (absent
\* or unreadable file); "unparseable": json.load raises; "no_trades" /
\* "no_summary": the key is absent from the object.
OkDoc(ts, sp) == [kind |-> "ok", trades |-> ts, summary_prob |-> sp]
BadDoc(k) == [kind |-> k, trades |-> <<>>, summary_prob |-> 50]
BadDocs ==
    {BadDoc("unreadable"), BadDoc("unparseable"), BadDoc("no_trades"),
     BadDoc("no_summary")}

\* --current-prob (given = FALSE: not on the command line), --output, --top
Args(given, cp, o, n) ==
    [given |-> given, current_prob |-> cp, output |-> o, top |-> n]

NoTiming == [kind |-> "none", rows |-> <<>>]
NoOutput == [kind |-> "none"]

\* a variant of Load that goes on with an empty collection when the document
\* cannot be read or lacks a key (data.get('trades', []) under a broad except)
Load_DefaultsToEmpty ==
    /\ pc = "start"
    /\ trades' = IF doc.kind = "ok" THEN doc.trades ELSE <<>>
    /\ current_prob' = IF args.given THEN args.current_prob
                       ELSE Rat(doc.summary_prob, 100)
    /\ pc' = "pnl"
    /\ UNCHANGED <<doc, args, pnl, timing, impact, positions, classifications,
                   output, error>>

\* lines 314-326
Load ==
    /\ pc = "start"
    /\ IF doc.kind # "ok"
       THEN /\ pc' = "error"
            /\ error' = CASE doc.kind = "unreadable" -> "OSError"
                          [] doc.kind = "unparseable" -> "ValueError"
                          [] OTHER -> "KeyError"
            /\ UNCHANGED <<trades, current_prob>>
       ELSE /\ trades' = doc.trades
            /\ current_prob' = IF args.given THEN args.current_prob
                               ELSE Rat(doc.summary_prob, 100)
            /\ pc' = "pnl"
            /\ UNCHANGED error
    /\ UNCHANGED <<doc, args, pnl, timing, impact, positions, classifications, output>>

\* line 329
RunEstimatePnl ==
    /\ pc = "pnl"
    /\ IF estimate_pnl_raises(trades)
       THEN pc' = "error" /\ error' = "KeyError" /\ UNCHANGED pnl
       ELSE IF estimate_pnl_zero_division(trades)
       THEN pc' = "error" /\ error' = "ZeroDivisionError" /\ UNCHANGED pnl
       ELSE pc' = "timing" /\ pnl' = estimate_pnl(trades, current_prob) /\ UNCHANGED error
    /\ UNCHANGED <<doc, args, trades, current_prob, timing, impact, positions,
                   classifications, output>>

\* line 330
RunAnalyzeTiming ==
    /\ pc = "timing"
    /\ IF analyze_timing_raises(trades)
       THEN pc' = "error" /\ error' = "KeyError" /\ UNCHANGED timing
       ELSE IF analyze_timing_zero_division(trades)
       THEN pc' = "error" /\ error' = "ZeroDivisionError" /\ UNCHANGED timing
       ELSE pc' = "impact" /\ timing' = analyze_timing(trades) /\ UNCHANGED error
    /\ UNCHANGED <<doc, args, trades, current_prob, pnl, impact, positions,
                   classifications, output>>

\* line 331
RunAnalyzeMarketImpact ==
    /\ pc = "impact"
    /\ IF analyze_market_impact_raises(trades)
       THEN pc' = "error" /\ error' = "KeyError" /\ UNCHANGED impact
       ELSE IF analyze_market_impact_zero_division(trades)
       THEN pc' = "error" /\ error' = "ZeroDivisionError" /\ UNCHANGED impact
       ELSE /\ pc' = "positions"
            /\ impact' = analyze_market_impact(trades)
            /\ UNCHANGED error
    /\ UNCHANGED <<doc, args, trades, current_prob, pnl, timing, positions,
                   classifications, output>>

\* a variant of RunAnalyzePositionChanges whose analyzer sorts the shared
\* list in place (trades.sort(...) instead of sorted(trades, ...))
RunAnalyzePositionChanges_SortsInPlace ==
    /\ pc = "positions"
    /\ IF analyze_position_changes_raises(trades)
       THEN pc' = "error" /\ error' = "KeyError" /\ UNCHANGED <<positions, trades>>
       ELSE /\ pc' = "classify"
            /\ positions' = analyze_position_changes(trades)
            /\ trades' = SortByTimestamp(trades)
            /\ UNCHANGED error
    /\ UNCHANGED <<doc, args, current_prob, pnl, timing, impact,
                   classifications, output>>

\* line 332
RunAnalyzePositionChanges ==
    /\ pc = "positions"
    /\ IF analyze_position_changes_raises(trades)
       THEN pc' = "error" /\ error' = "KeyError" /\ UNCHANGED positions
       ELSE IF analyze_position_changes_zero_division(trades)
       THEN pc' = "error" /\ error' = "ZeroDivisionError" /\ UNCHANGED positions
       ELSE pc' = "classify" /\ positions' = analyze_position_changes(trades)
            /\ UNCHANGED error
    /\ UNCHANGED <<doc, args, trades, current_prob, pnl, timing, impact,
                   classifications, output>>

\* line 333
RunClassifyTraders ==
    /\ pc = "classify"
    /\ IF classify_traders_raises(trades)
       THEN pc' = "error" /\ error' = "KeyError" /\ UNCHANGED classifications
       ELSE IF classify_traders_zero_division(trades, pnl)
       THEN pc' = "error" /\ error' = "ZeroDivisionError" /\ UNCHANGED classifications
       ELSE pc' = "emit" /\ classifications' = classify_traders(trades, pnl)
            /\ UNCHANGED error
    /\ UNCHANGED <<doc, args, trades, current_prob, pnl, timing, impact,
                   positions, output>>

\* [t for t in trades if not t.get('is_redemption')], line 341
NonRedemption(ts) == SelectSeq(ts, LAMBDA t : ~IsRedemption(t))

\* lines 336-348
FullReport ==
    [kind |-> "all",
     total_traders |-> Len(pnl),
     total_trades |-> Len(NonRedemption(trades)),
     pnl_leaderboard |-> Slice(pnl, args.top),
     biggest_losers |->
        Slice(SortedBy(pnl, [i \in 1..Len(pnl) |-> pnl[i].estimated_pnl], FALSE),
              args.top),
     market_movers |-> Slice(impact, args.top),
     position_flippers |->
        Slice(SelectSeq(positions, LAMBDA p : p.is_flipper), args.top),
     trader_classifications |-> Slice(classifications, args.top)]

\* timing[:args.top] raises TypeError/KeyError when timing is the dict {}
EmitRaises == args.output = "timing" /\ timing.kind = "dict"

\* lines 335-358
Emit ==
    /\ pc = "emit"
    /\ IF EmitRaises
       THEN pc' = "error" /\ error' = "TypeError" /\ UNCHANGED output
       ELSE /\ pc' = "done"
            /\ output' =
                 CASE args.output = "all" -> FullReport
                   [] args.output = "pnl" ->
                        [kind |-> "pnl", rows |-> Slice(pnl, args.top)]
                   [] args.output = "timing" ->
                        [kind |-> "timing", rows |-> Slice(timing.rows, args.top)]
                   [] args.output = "impact" ->
                        [kind |-> "impact", rows |-> Slice(impact, args.top)]
                   [] args.output = "classify" ->
                        [kind |-> "classify", rows |-> Slice(classifications, args.top)]
            /\ UNCHANGED error
    /\ UNCHANGED <<doc, args, trades, current_prob, pnl, timing, impact,
                   positions, classifications>>

Next ==
    \/ Load
    \/ RunEstimatePnl
    \/ RunAnalyzeTiming
    \/ RunAnalyzeMarketImpact
    \/ RunAnalyzePositionChanges
    \/ RunClassifyTraders
    \/ Emit

\* The state before main runs, for a set of documents and command lines.
InitWith(docs, argset) ==
    /\ doc \in docs
    /\ args \in argset
    /\ pc = "start"
    /\ trades = <<>>
    /\ current_prob = R0
    /\ pnl = <<>>
    /\ timing = NoTiming
    /\ impact = <<>>
    /\ positions = <<>>
    /\ classifications = <<>>
    /\ output = NoOutput
    /\ error = "none"

\* all lists of at most n records drawn from recs
SeqsUpTo(recs, n) == UNION {[1..k -> recs] : k \in 0..n}

(***************************************************************************)
(* Stages of main and helpers shared by the properties                     *)
(***************************************************************************)
StageNo(p) ==
    CASE p = "start" -> 0 [] p = "pnl" -> 1 [] p = "timing" -> 2
      [] p = "impact" -> 3 [] p = "positions" -> 4 [] p = "classify" -> 5
      [] p = "emit" -> 6 [] p = "done" -> 7 [] OTHER -> -1

PnlDone == StageNo(pc) >= 2
TimingDone == StageNo(pc) >= 3
ImpactDone == StageNo(pc) >= 4
PositionsDone == StageNo(pc) >= 5
ClassifyDone == StageNo(pc) >= 6

RECURSIVE RSum(_)
RSum(xs) == IF xs = <<>> THEN R0 ELSE RAdd(Head(xs), RSum(Tail(xs)))

\* the non-redemption trades of trader u, in input order
TradesOf(ts, u) == SelectSeq(ts, LAMBDA t : ~IsRedemption(t) /\ t.user = u)
TradesOfSide(ts, u, side) ==
    SelectSeq(TradesOf(ts, u), LAMBDA t : (t.outcome = "YES") = (side = "YES"))

Traders(ts) == {ts[i].user : i \in {j \in 1..Len(ts) : ~IsRedemption(ts[j])}}

(***************************************************************************)
(* Input families                                                          *)
(***************************************************************************)
Half == Rat(1, 2)

MaxPnlTrades == 3

PnlSides == {<<"YES", 100, 25>>, <<"YES", 100, 30>>, <<"YES", 100, 0>>,
             <<"NO", 100, 100>>, <<"NO", 50, 30>>,
             <<"YES", 0, 50>>}

PnlRecords ==
    {Trade(u, x[2], x[1], x[3], x[3], 1, FALSE, {}) : u \in {1, 2}, x \in PnlSides}

PnlDocs == {OkDoc(ts, 50) : ts \in SeqsUpTo(PnlRecords, MaxPnlTrades)} \cup BadDocs

PnlArgs == {Args(FALSE, R0, "pnl", 20), Args(TRUE, Rat(4, 5), "all", 20)}

InitPnl == InitWith(PnlDocs, PnlArgs)
SpecPnl == InitPnl /\ [][Next]_vars

(***************************************************************************)
(* C1                                                                      *)
(***************************************************************************)
\* shares a trade adds according to the claim: amount/p, 0 at the degenerate price
ClaimShares(t) ==
    LET p == Rat(t.prob_before, 100)
    IN  IF t.outcome = "YES"
        THEN (IF p = R0 THEN R0 ELSE RDiv(R(t.amount), p))
        ELSE (IF p = R1 THEN R0 ELSE RDiv(R(t.amount), RSub(R1, p)))

SideShares(u, side) ==
    LET ts == TradesOfSide(trades, u, side)
    IN  RSum([i \in 1..Len(ts) |-> ClaimShares(ts[i])])

SideCost(u, side) ==
    LET ts == TradesOfSide(trades, u, side)
    IN  RSum([i \in 1..Len(ts) |-> R(ts[i].amount)])

ExactPnl(u) ==
    RAdd(RSub(RMul(SideShares(u, "YES"), current_prob), SideCost(u, "YES")),
         RSub(RMul(SideShares(u, "NO"), RSub(R1, current_prob)), SideCost(u, "NO")))

TotalCost(u) == RAdd(SideCost(u, "YES"), SideCost(u, "NO"))

ExactRoi(u) ==
    IF RGt(TotalCost(u), R0)
    THEN RMul(RDiv(ExactPnl(u), TotalCost(u)), R(100)) ELSE R0

\* the trader of the P&L scenario: one YES trade of 100 at 25%, reference 0.50
IsPnlScenario(u) ==
    /\ current_prob = Half
    /\ Len(TradesOf(trades, u)) = 1
    /\ LET t == TradesOf(trades, u)[1]
       IN  t.outcome = "YES" /\ t.amount = 100 /\ t.prob_before = 25

\* C1 as stated: each reported estimated_pnl and roi_pct equals the exact
\* expression over the folded shares and costs (no rounding), roi_pct being
\* the reported estimated_pnl over the reported total_cost.
C1_AsStated ==
    PnlDone =>
        \A i \in 1..Len(pnl) :
            LET r == pnl[i]
            IN  /\ r.estimated_pnl = ExactPnl(r.user)
                /\ r.roi_pct = IF RGt(r.total_cost, R0)
                               THEN RMul(RDiv(r.estimated_pnl, r.total_cost), R(100))
                               ELSE R0

\* C1 (amended): estimate_pnl folds every non-redemption trade as the claim
\* says (YES adds amount/p shares, 0 at p = 0, and amount to yes_cost; NO adds
\* amount/(1-p) shares, 0 at p = 1, and amount to no_cost); for every trader
\* the reported estimated_pnl is (yes_shares*ref - yes_cost) +
\* (no_shares*(1-ref) - no_cost) rounded to 2 decimals, roi_pct is the
\* unrounded pnl / total_cost * 100 rounded to 1 decimal (0 when total_cost
\* is 0), position is LONG exactly when yes_cost > no_cost, and the scenario
\* trader gets yes_value 200, estimated_pnl 100, roi_pct 100.0.
C1_PnlFormula ==
    PnlDone =>
        \A i \in 1..Len(pnl) :
            LET r == pnl[i]
                u == r.user
            IN  /\ r.yes_cost = SideCost(u, "YES")
                /\ r.no_cost = SideCost(u, "NO")
                /\ r.yes_value = Round(RMul(SideShares(u, "YES"), current_prob), 2)
                /\ r.no_value =
                     Round(RMul(SideShares(u, "NO"), RSub(R1, current_prob)), 2)
                /\ r.estimated_pnl = Round(ExactPnl(u), 2)
                /\ r.roi_pct = Round(ExactRoi(u), 1)
                /\ (r.position = "LONG") = RGt(SideCost(u, "YES"), SideCost(u, "NO"))
                /\ r.position \in {"LONG", "SHORT"}
                /\ IsPnlScenario(u) =>
                     /\ SideShares(u, "YES") = R(400)
                     /\ r.yes_value = R(200)
                     /\ r.estimated_pnl = R(100)
                     /\ r.roi_pct = R(100)

\* the scenario trader is in the result, next to a trader with both sides
\* whose P&L does not fall on a cent
C1_Witness ==
    /\ PnlDone
    /\ \E i \in 1..Len(pnl) : IsPnlScenario(pnl[i].user) /\ pnl[i].roi_pct = R(100)
    /\ \E i \in 1..Len(pnl) :
          /\ SideCost(pnl[i].user, "YES") # R0
          /\ SideCost(pnl[i].user, "NO") # R0
          /\ pnl[i].estimated_pnl # ExactPnl(pnl[i].user)

MaxTimingTrades == 4

TimingRecords ==
    {Trade(u, 10, "YES", 50, 50, ts, red, {}) :
        u \in {1, 2}, ts \in {1, 2}, red \in BOOLEAN}

\* The quartile scenario: 12 trades with timestamps 12, 11, .., 1 in list
\* order (so the trade at list position k has rank index 12 - k); trader 1
\* owns the rank indices in S1, trader 2 those in S2, trader 3 the others.
ScenarioRanks == 0..11

QuartileTrades(S1, S2) ==
    LET n == Cardinality(ScenarioRanks)
    IN  [k \in 1..n |->
            Trade(IF (n - k) \in S1 THEN 1 ELSE IF (n - k) \in S2 THEN 2 ELSE 3,
                  10, "YES", 50, 50, n + 1 - k, FALSE, {})]

QuartileSets ==
    {S \in SUBSET ScenarioRanks : Cardinality(S) \in {2, 3}}

QuartileDocs ==
    {OkDoc(QuartileTrades(S1, S2), 50) :
        S1 \in QuartileSets, S2 \in {{}, {9, 10, 11}}}

TimingDocs ==
    {OkDoc(ts, 50) : ts \in SeqsUpTo(TimingRecords, MaxTimingTrades)}
    \cup QuartileDocs
    \cup BadDocs

TimingArgs == {Args(FALSE, R0, "timing", 20)}

InitTiming == InitWith(TimingDocs, TimingArgs)
SpecTiming == InitTiming /\ [][Next]_vars

(***************************************************************************)
(* C2                                                                      *)
(***************************************************************************)
\* rank index of the record at list position j in timestamp order (ties in
\* list order), counted over the records at the positions in `among`
RankAmong(ts, j, among) ==
    Cardinality({k \in among :
        \/ ts[k].timestamp < ts[j].timestamp
        \/ ts[k].timestamp = ts[j].timestamp /\ k < j})

AllPositions(ts) == 1..Len(ts)
LivePositions(ts) == {j \in 1..Len(ts) : ~IsRedemption(ts[j])}

\* the rank indices of trader u's non-redemption trades
RankSet(ts, u, among) ==
    {RankAmong(ts, j, among) : j \in {k \in LivePositions(ts) : ts[k].user = u}}

\* number of u's non-redemption trades with lo <= rank index < hi
CountIn(ts, u, among, lo, hi) ==
    Cardinality({j \in LivePositions(ts) :
        /\ ts[j].user = u
        /\ lo <= RankAmong(ts, j, among)
        /\ RankAmong(ts, j, among) < hi})

\* the row of trader u agrees with the quartile rule over the positions `among`
TimingRowAgrees(r, ts, among) ==
    LET total == Cardinality(among)
        q1 == total \div 4
        q3 == (total * 3) \div 4
        early == CountIn(ts, r.user, among, 0, q1)
        mid == CountIn(ts, r.user, among, q1, q3)
        late == CountIn(ts, r.user, among, q3, total)
    IN  /\ r.early_trades = early
        /\ r.mid_trades = mid
        /\ r.late_trades = late
        /\ (r.timing_type = "EARLY") = (early > late)
        /\ (r.timing_type = "LATE") = (late > early)
        /\ (r.timing_type = "SPREAD") = (early = late)

\* C2: with q1 = total // 4 and q3 = (total * 3) // 4 over the timestamp-sorted
\* collection, analyze_timing counts each trade of a trader as early (rank
\* index < q1), mid (q1 <= index < q3) or late (index >= q3) and classifies
\* EARLY iff early > late, LATE iff late > early, SPREAD on every tie; for
\* total = 12 the index sets {0,1,2}, {9,10,11}, {0,11} give EARLY, LATE, SPREAD.
C2_QuartileBuckets ==
    (TimingDone /\ trades # <<>>) =>
        /\ timing.kind = "list"
        /\ \A i \in 1..Len(timing.rows) :
              LET r == timing.rows[i]
                  idx == RankSet(trades, r.user, AllPositions(trades))
              IN  /\ TimingRowAgrees(r, trades, AllPositions(trades))
                  /\ Len(trades) = 12 =>
                        /\ idx = {0, 1, 2} => r.timing_type = "EARLY"
                        /\ idx = {9, 10, 11} => r.timing_type = "LATE"
                        /\ idx = {0, 11} => r.timing_type = "SPREAD"

C2_HasRow(S, type) ==
    \E i \in 1..Len(timing.rows) :
        /\ RankSet(trades, timing.rows[i].user, AllPositions(trades)) = S
        /\ timing.rows[i].timing_type = type

\* the 12-trade scenario has run with an EARLY and a LATE trader in it
C2_Witness ==
    /\ TimingDone
    /\ Len(trades) = 12
    /\ C2_HasRow({0, 1, 2}, "EARLY")
    /\ C2_HasRow({9, 10, 11}, "LATE")

(***************************************************************************)
(* C8                                                                      *)
(***************************************************************************)
\* C8 as stated: rank index, total, q1, q3 and first_trade_pct are computed
\* over the non-redemption trades only.
C8_RanksSkipRedemptions ==
    (TimingDone /\ trades # <<>>) =>
        \A i \in 1..Len(timing.rows) :
            LET r == timing.rows[i]
                live == LivePositions(trades)
                first == CHOOSE x \in RankSet(trades, r.user, live) :
                            \A y \in RankSet(trades, r.user, live) : x <= y
            IN  /\ TimingRowAgrees(r, trades, live)
                /\ r.first_trade_pct =
                     Round(RMul(Rat(first, Cardinality(live)), R(100)), 1)

(***************************************************************************)
(* C3                                                                      *)
(***************************************************************************)
MaxFlipTrades == 4

FlipRecords ==
    {Trade(u, 10, o, 50, 50, ts, FALSE, {}) :
        u \in {1, 2}, o \in {"YES", "NO"}, ts \in {1, 2}}
    \cup {Trade(1, 10, "NO", 50, 50, 1, TRUE, {})}

\* trader 1 trades YES, NO, YES, NO and trader 2 YES, YES, YES, interleaved
\* and listed latest first
FlipScenario ==
    <<Trade(1, 10, "NO", 50, 50, 7, FALSE, {}),
      Trade(2, 10, "YES", 50, 50, 6, FALSE, {}),
      Trade(1, 10, "YES", 50, 50, 5, FALSE, {}),
      Trade(2, 10, "YES", 50, 50, 4, FALSE, {}),
      Trade(1, 10, "NO", 50, 50, 3, FALSE, {}),
      Trade(2, 10, "YES", 50, 50, 2, FALSE, {}),
      Trade(1, 10, "YES", 50, 50, 1, FALSE, {})>>

FlipDocs ==
    {OkDoc(ts, 50) : ts \in SeqsUpTo(FlipRecords, MaxFlipTrades)}
    \cup {OkDoc(FlipScenario, 50)}
    \cup BadDocs

FlipArgs == {Args(FALSE, R0, "all", 20)}

InitFlip == InitWith(FlipDocs, FlipArgs)
SpecFlip == InitFlip /\ [][Next]_vars

\* list positions of trader u's non-redemption trades
OwnPositions(ts, u) == {j \in LivePositions(ts) : ts[j].user = u}

\* outcome of the k-th (1-based) trade of u's own timestamp-ordered sequence
OwnOutcome(ts, u, k) ==
    ts[CHOOSE j \in OwnPositions(ts, u) :
            RankAmong(ts, j, OwnPositions(ts, u)) = k - 1].outcome

OwnOutcomes(ts, u) ==
    [k \in 1..Cardinality(OwnPositions(ts, u)) |-> OwnOutcome(ts, u, k)]

\* number of positions i >= 1 (0-based) whose outcome differs from the one before
Changes(os) == Cardinality({i \in 2..Len(os) : os[i] # os[i - 1]})

\* C3: for every trader with at least 2 non-redemption trades,
\* analyze_position_changes reports flips = the number of positions i >= 1 of
\* the trader's own timestamp-ordered sequence where outcome[i] differs from
\* outcome[i-1], and is_flipper exactly when flips >= 2; [YES, NO, YES, NO]
\* gives 3 and true, [YES, YES, YES] gives 0 and false.
C3_FlipCount ==
    PositionsDone =>
        \A u \in Traders(trades) :
            Cardinality(OwnPositions(trades, u)) >= 2 =>
                /\ \E i \in 1..Len(positions) : positions[i].user = u
                /\ \A i \in 1..Len(positions) :
                      positions[i].user = u =>
                        LET r == positions[i]
                            os == OwnOutcomes(trades, u)
                        IN  /\ r.flips = Changes(os)
                            /\ r.is_flipper = (r.flips >= 2)
                            /\ os = <<"YES", "NO", "YES", "NO">> =>
                                  r.flips = 3 /\ r.is_flipper
                            /\ os = <<"YES", "YES", "YES">> =>
                                  r.flips = 0 /\ ~r.is_flipper

\* both traders of the flip scenario have been reported
C3_Witness ==
    /\ PositionsDone
    /\ \E i \in 1..Len(positions) :
          /\ OwnOutcomes(trades, positions[i].user) = <<"YES", "NO", "YES", "NO">>
          /\ positions[i].flips = 3
    /\ \E i \in 1..Len(positions) :
          /\ OwnOutcomes(trades, positions[i].user) = <<"YES", "YES", "YES">>
          /\ positions[i].flips = 0

(***************************************************************************)
(* C6                                                                      *)
(***************************************************************************)
MaxImpactTrades == 3

\* (prob_before, prob_after) pairs on the 0-100 scale
ImpactMoves == {<<40, 45>>, <<45, 30>>, <<30, 30>>, <<50, 49>>}

ImpactRecords ==
    {Trade(u, 10, "YES", m[1], m[2], 1, FALSE, {}) : u \in {1, 2}, m \in ImpactMoves}
    \cup {Trade(1, 10, "YES", 0, 100, 1, TRUE, {})}

ImpactDocs ==
    {OkDoc(ts, 50) : ts \in SeqsUpTo(ImpactRecords, MaxImpactTrades)} \cup BadDocs

ImpactArgs == {Args(FALSE, R0, "impact", 20)}

InitImpact == InitWith(ImpactDocs, ImpactArgs)
SpecImpact == InitImpact /\ [][Next]_vars

\* |prob_after - prob_before| of each of u's non-redemption trades, a sequence
Moves(u) ==
    LET ts == TradesOf(trades, u)
    IN  [i \in 1..Len(ts) |->
            IF ts[i].prob_after >= ts[i].prob_before
            THEN ts[i].prob_after - ts[i].prob_before
            ELSE ts[i].prob_before - ts[i].prob_after]

MaxOf(xs) == CHOOSE m \in {xs[i] : i \in 1..Len(xs)} : \A i \in 1..Len(xs) : xs[i] <= m

\* the trader of the market-impact scenario: moves 40 -> 45 and 45 -> 30
IsImpactScenario(u) ==
    LET ts == TradesOf(trades, u)
    IN  /\ Len(ts) = 2
        /\ ts[1].prob_before = 40 /\ ts[1].prob_after = 45
        /\ ts[2].prob_before = 45 /\ ts[2].prob_after = 30

MaxCrowd == 12
MaxFocalSide == 11

\* xs repeated n times
RECURSIVE Repeat(_, _)
Repeat(xs, n) == IF n = 0 THEN <<>> ELSE xs \o Repeat(xs, n - 1)

\* n one-trade traders 101.. with volumes 1000, 1000, 1010, 1010, ..
CrowdTrades(n) ==
    [j \in 1..n |-> Trade(100 + j, 1000 + 10 * ((j - 1) \div 2), "YES", 50, 50, 1, FALSE, {})]

\* trader 1: ny YES trades of 30 at 25% and nn NO trades of 20 at 50%
FocalTrades(ny, nn) ==
    Repeat(<<Trade(1, 30, "YES", 25, 25, 1, FALSE, {})>>, ny)
    \o Repeat(<<Trade(1, 20, "NO", 50, 50, 1, FALSE, {})>>, nn)

ClassifyDocs ==
    {OkDoc(CrowdTrades(n) \o FocalTrades(ny, nn), 50) :
        n \in 0..MaxCrowd, ny \in 0..MaxFocalSide, nn \in 0..MaxFocalSide}
    \cup BadDocs

ClassifyArgs == {Args(TRUE, cp, "classify", 20) : cp \in {Rat(1, 10), Half}}

InitClassify == InitWith(ClassifyDocs, ClassifyArgs)
SpecClassify == InitClassify /\ [][Next]_vars

Volume(u) ==
    LET ts == TradesOf(trades, u)
    IN  SumSeq([i \in 1..Len(ts) |-> ts[i].amount])

TradeCount(u) == Len(TradesOf(trades, u))

\* yes_cost / total_cost * 100, 50 when nothing was spent
ExactYesPct(u) ==
    IF RGt(TotalCost(u), R0)
    THEN RMul(RDiv(SideCost(u, "YES"), TotalCost(u)), R(100)) ELSE R(50)

\* the volume at 0-based rank k of the traders' volumes in descending order,
\* clamped to the smallest volume: the largest v that at least
\* min(k + 1, number of traders) traders reach
VolumeAtRank(k) ==
    LET us == Traders(trades)
        need == IF Cardinality(us) < k + 1 THEN Cardinality(us) ELSE k + 1
        ok(v) == Cardinality({u \in us : Volume(u) >= v}) >= need
    IN  IF us = {} THEN 0
        ELSE CHOOSE v \in {Volume(u) : u \in us} :
                /\ ok(v)
                /\ \A w \in {Volume(u) : u \in us} : ok(w) => w <= v

LabelOrder == <<"WHALE", "ACTIVE", "BULL", "BEAR", "WINNER", "LOSER", "RETAIL">>

\* the rule of label l for trader u, RETAIL aside; wt is the whale threshold
LabelRule(l, u, wt) ==
    LET roi_pct == Round(ExactRoi(u), 1)
    IN  CASE l = "WHALE" -> Volume(u) >= wt
          [] l = "ACTIVE" -> TradeCount(u) >= 20
          [] l = "BULL" -> RGe(ExactYesPct(u), R(80))
          [] l = "BEAR" -> ~RGe(ExactYesPct(u), R(80)) /\ RLe(ExactYesPct(u), R(20))
          [] l = "WINNER" -> RGt(roi_pct, R(50))
          [] l = "LOSER" -> ~RGt(roi_pct, R(50)) /\ RLt(roi_pct, R(-30))
          [] OTHER -> FALSE

LabelApplies(l, u, wt) ==
    IF l = "RETAIL"
    THEN \A k \in {"WHALE", "ACTIVE", "BULL", "BEAR", "WINNER", "LOSER"} :
            ~LabelRule(k, u, wt)
    ELSE LabelRule(l, u, wt)

\* the trader of the classification scenario
IsClassifyScenario(u, wt) ==
    /\ Volume(u) < wt
    /\ TradeCount(u) = 5
    /\ ExactYesPct(u) = R(50)
    /\ Round(ExactRoi(u), 1) = R(10)

\* C4: classify_traders gives each trader the labels, in this order, WHALE iff
\* volume >= whale_threshold, ACTIVE iff trade_count >= 20, BULL iff yes_pct >=
\* 80 else BEAR iff yes_pct <= 20, WINNER iff roi_pct > 50 else LOSER iff
\* roi_pct < -30, RETAIL iff none of them; the scenario trader (volume below
\* the threshold, 5 trades, yes_pct 50, roi_pct 10) gets exactly [RETAIL].
C4_LabelRules ==
    ClassifyDone =>
        LET wt == VolumeAtRank(10)
        IN  \A i \in 1..Len(classifications) :
                LET r == classifications[i]
                IN  /\ r.types =
                        SelectSeq(LabelOrder, LAMBDA l : LabelApplies(l, r.user, wt))
                    /\ IsClassifyScenario(r.user, wt) => r.types = <<"RETAIL">>

\* the scenario trader is classified, in a collection that also holds a WHALE
C4_Witness ==
    /\ ClassifyDone
    /\ \E i \in 1..Len(classifications) :
          /\ IsClassifyScenario(classifications[i].user, VolumeAtRank(10))
          /\ classifications[i].types = <<"RETAIL">>
    /\ \E i \in 1..Len(classifications) : classifications[i].types[1] = "WHALE"

Has(types, l) == \E k \in 1..Len(types) : types[k] = l

\* C5: every label list of the classify_traders output is non-empty, holds no
\* label twice, never both BULL and BEAR, never both WINNER and LOSER, and
\* holds RETAIL only as its sole element.
C5_LabelSets ==
    ClassifyDone =>
        \A i \in 1..Len(classifications) :
            LET types == classifications[i].types
            IN  /\ Len(types) >= 1
                /\ \A j, k \in 1..Len(types) : types[j] = types[k] => j = k
                /\ \A k \in 1..Len(types) :
                      \E m \in 1..Len(LabelOrder) : types[k] = LabelOrder[m]
                /\ ~(Has(types, "BULL") /\ Has(types, "BEAR"))
                /\ ~(Has(types, "WINNER") /\ Has(types, "LOSER"))
                /\ Has(types, "RETAIL") => types = <<"RETAIL">>

\* one output holds a RETAIL trader, a trader with several labels and a BULL
C5_Witness ==
    /\ ClassifyDone
    /\ \E i \in 1..Len(classifications) : classifications[i].types = <<"RETAIL">>
    /\ \E i \in 1..Len(classifications) : Len(classifications[i].types) >= 2
    /\ \E i \in 1..Len(classifications) : Has(classifications[i].types, "BULL")

(***************************************************************************)
(* C7                                                                      *)
(***************************************************************************)
MaxRedeemTrades == 3

RedeemRecords ==
    {Trade(1, 100, o, 25, 30, ts, red, {}) :
        o \in {"YES", "NO"}, ts \in {1, 2}, red \in BOOLEAN}
    \cup {Trade(2, 100, "YES", 25, 30, ts, red, {}) : ts \in {1, 2}, red \in BOOLEAN}

RedeemDocs ==
    {OkDoc(ts, 50) : ts \in SeqsUpTo(RedeemRecords, MaxRedeemTrades)} \cup BadDocs

RedeemArgs == {Args(FALSE, R0, "all", 20)}

InitRedeem == InitWith(RedeemDocs, RedeemArgs)
SpecRedeem == InitRedeem /\ [][Next]_vars

\* the collection with every record flagged is_redemption removed
WithoutRedemptions(ts) == SelectSeq(ts, LAMBDA t : ~t.is_redemption)

\* traders all of whose records are redemptions
OnlyRedeemers(ts) ==
    {ts[i].user : i \in 1..Len(ts)}
        \ {ts[i].user : i \in {j \in 1..Len(ts) : ~ts[j].is_redemption}}

NoRowOf(rows, us) == \A i \in 1..Len(rows) : rows[i].user \notin us

\* C7: the outputs of estimate_pnl, analyze_position_changes,
\* analyze_market_impact and classify_traders equal their outputs on the
\* collection with every is_redemption record removed, and a trader whose
\* records are all redemptions appears in none of them.
C7_RedemptionsIgnored ==
    LET kept == WithoutRedemptions(trades)
        gone == OnlyRedeemers(trades)
    IN  /\ PnlDone =>
            pnl = estimate_pnl(kept, current_prob) /\ NoRowOf(pnl, gone)
        /\ ImpactDone =>
            impact = analyze_market_impact(kept) /\ NoRowOf(impact, gone)
        /\ PositionsDone =>
            positions = analyze_position_changes(kept) /\ NoRowOf(positions, gone)
        /\ ClassifyDone =>
            /\ classifications = classify_traders(kept, estimate_pnl(kept, current_prob))
            /\ NoRowOf(classifications, gone)

\* all four analyzers have run on a collection that holds a redemption-only
\* trader and a trader with both kinds of records
C7_Witness ==
    /\ ClassifyDone
    /\ OnlyRedeemers(trades) # {}
    /\ \E i, j \in 1..Len(trades) :
          /\ trades[i].user = trades[j].user
          /\ trades[i].is_redemption /\ ~trades[j].is_redemption
    /\ Len(classifications) = 1 /\ Len(pnl) = 1 /\ Len(impact) = 1

(***************************************************************************)
(* C9, C10                                                                 *)
(***************************************************************************)
MaxTrades == 2

SmallRecords ==
    {Trade(u, 100, "YES", 25, 30, 1, FALSE, miss) :
        u \in {1, 2}, miss \in {{}, {"outcome"}}}
    \cup {Trade(1, 100, "NO", 25, 30, 2, TRUE, miss) :
            miss \in {{"timestamp"}, {"prob_after"}, {"date"}, {"amount"}, {"user"},
                      {"is_redemption"}}}
    \cup {Trade(1, 100, "YES", 25, 30, 1, TRUE, miss) : miss \in {{}, {"outcome"}}}

SmallDocs == {OkDoc(ts, 50) : ts \in SeqsUpTo(SmallRecords, MaxTrades)} \cup BadDocs

Tops == {1, 20}

SmallArgs == {Args(FALSE, R0, o, n) : o \in Selectors, n \in Tops}

Init == InitWith(SmallDocs, SmallArgs)
Spec == Init /\ [][Next]_vars

\* records from which estimate_pnl can read every field it needs
PnlValid(ts) == SelectSeq(ts, LAMBDA t : IsRedemption(t) \/ ~Raises(t, PnlKeys))

\* C9 as stated: a trade record with a missing field does not abort the run;
\* the analyzer that needs the field skips the record and works on the rest.
C9_MalformedSkipped ==
    doc.kind = "ok" =>
        /\ ~(pc = "error" /\ error = "KeyError")
        /\ PnlDone => pnl = estimate_pnl(PnlValid(trades), current_prob)

\* C10 as stated: on an empty trade collection every analyzer returns an
\* empty result and the run completes for every output selector.
C10_EmptyRunCompletes ==
    (doc.kind = "ok" /\ doc.trades = <<>>) =>
        /\ pc # "error"
        /\ PnlDone => pnl = <<>>
        /\ TimingDone => timing.rows = <<>>
        /\ ImpactDone => impact = <<>>
        /\ PositionsDone => positions = <<>>
        /\ ClassifyDone => classifications = <<>>

(***************************************************************************)
(* C11                                                                     *)
(***************************************************************************)
\* every trade of u on `side` was made at the price 0 of that side
AllDegenerate(u, side) ==
    LET ts == TradesOfSide(trades, u, side)
    IN  \A i \in 1..Len(ts) :
            ts[i].prob_before = IF side = "YES" THEN 0 ELSE 100

\* C11: over well-formed records no analyzer divides by zero: the run never
\* ends in ZeroDivisionError (nor in any other error), trades at the price 0
\* of their side add no shares (a side traded only there has value 0),
\* roi_pct is 0 when total_cost is 0, a side without volume has average entry
\* probability 0, yes_pct is 50 when total_cost is 0, and first_trade_pct and
\* avg_impact exist only over a positive total and a positive trade count.
C11_NoZeroDivision ==
    /\ error # "ZeroDivisionError"
    /\ doc.kind = "ok" => pc # "error"
    /\ PnlDone =>
          \A i \in 1..Len(pnl) :
              LET r == pnl[i]
              IN  /\ AllDegenerate(r.user, "YES") => r.yes_value = R0
                  /\ AllDegenerate(r.user, "NO") => r.no_value = R0
                  /\ TotalCost(r.user) = R0 => r.roi_pct = R0
    /\ TimingDone => (timing.rows # <<>> => Len(trades) > 0)
    /\ ImpactDone => \A i \in 1..Len(impact) : impact[i].trade_count > 0
    /\ PositionsDone =>
          \A i \in 1..Len(positions) :
              LET r == positions[i]
              IN  /\ SideCost(r.user, "YES") = R0 => r.avg_yes_entry_prob = R0
                  /\ SideCost(r.user, "NO") = R0 => r.avg_no_entry_prob = R0
    /\ ClassifyDone =>
          \A i \in 1..Len(classifications) :
              TotalCost(classifications[i].user) = R0 =>
                  classifications[i].yes_pct = R(50)

\* all analyzers have run on a collection with a trade at the price 0 of its
\* side and a trader who spent nothing over two trades
C11_Witness ==
    /\ ClassifyDone
    /\ \E i \in 1..Len(trades) : ~HasPrice(trades[i]) /\ trades[i].amount > 0
    /\ \E i \in 1..Len(classifications) :
          /\ TotalCost(classifications[i].user) = R0
          /\ classifications[i].yes_pct = R(50)
    /\ \E i \in 1..Len(positions) :
          /\ TotalCost(positions[i].user) = R0
          /\ positions[i].avg_yes_entry_prob = R0

(***************************************************************************)
(* C12                                                                     *)
(***************************************************************************)
MaxRangeTrades == 2

\* (prob_before, prob_after) pairs of the document, some outside 0-100
RangeProbs == {<<50, 60>>, <<150, 50>>, <<-10, 50>>, <<50, 120>>}

RangeRecords ==
    {Trade(u, 100, o, m[1], m[2], 1, FALSE, {}) :
        u \in {1, 2}, o \in {"YES", "NO"}, m \in RangeProbs}
    \cup {Trade(1, 100, "YES", 150, 120, 1, TRUE, {})}

RangeDocs ==
    {OkDoc(ts, 50) : ts \in SeqsUpTo(RangeRecords, MaxRangeTrades)} \cup BadDocs

RangeArgs == {Args(TRUE, Half, "all", 20)}

InitRange == InitWith(RangeDocs, RangeArgs)
SpecRange == InitRange /\ [][Next]_vars

\* a probability on the 0-100 input scale whose normalized value is in [0, 1]
InRange(p) == 0 <= p /\ p <= 100

\* C12 as stated: the non-redemption trades that reach the analyzers have
\* prob_before and prob_after within 0-100 (0 <= p <= 1 normalized), so no
\* share price used by estimate_pnl exceeds 1 and no reported move exceeds
\* 100 points.
C12_ProbabilitiesInRange ==
    /\ PnlDone =>
          \A i \in 1..Len(trades) :
              ~IsRedemption(trades[i]) =>
                  InRange(trades[i].prob_before) /\ InRange(trades[i].prob_after)
    /\ PnlDone =>
          \A i \in 1..Len(trades) :
              (~IsRedemption(trades[i]) /\ HasPrice(trades[i])) =>
                  RGt(Price(trades[i]), R0) /\ RLe(Price(trades[i]), R1)
    /\ ImpactDone =>
          \A i \in 1..Len(impact) : RLe(impact[i].biggest_move_pct, R(100))

(***************************************************************************)
(* C13                                                                     *)
(***************************************************************************)
\* trader u's entry in the positions pos; the initial position when absent
PosIn(pos, u) ==
    LET i == IndexOf(pos, u)
    IN  IF i = 0 THEN NewPosition(u) ELSE pos[i]

\* trader u's position after the first k records have been folded in
PosAt(ts, k, u) == PosIn(PositionsAfter(ts, k), u)

NonNegative(p) ==
    /\ RGe(p.yes_shares, R0) /\ RGe(p.no_shares, R0)
    /\ RGe(p.yes_cost, R0) /\ RGe(p.no_cost, R0)

NonDecreasing(a, b) ==
    /\ RLe(a.yes_shares, b.yes_shares) /\ RLe(a.no_shares, b.no_shares)
    /\ RLe(a.yes_cost, b.yes_cost) /\ RLe(a.no_cost, b.no_cost)

\* C13: while estimate_pnl folds the trades, every trader's yes_shares,
\* no_shares, yes_cost and no_cost are >= 0 after every step and none is
\* smaller than before the step; a YES trade leaves the trader's no_shares and
\* no_cost unchanged and a NO trade the yes_shares and yes_cost.  Stated of
\* the fold that estimate_pnl has just completed.
C13_MonotoneFold ==
    pc = "timing" =>
        LET after == [k \in 0..Len(trades) |-> PositionsAfter(trades, k)]
        IN  \A k \in 1..Len(trades) :
                \A u \in {trades[i].user : i \in 1..Len(trades)} :
                    LET a == PosIn(after[k - 1], u)
                        b == PosIn(after[k], u)
                        t == trades[k]
                        mine == ~IsRedemption(t) /\ t.user = u
                    IN  /\ NonNegative(b)
                        /\ NonDecreasing(a, b)
                        /\ (mine /\ t.outcome = "YES") =>
                              b.no_shares = a.no_shares /\ b.no_cost = a.no_cost
                        /\ (mine /\ t.outcome # "YES") =>
                              b.yes_shares = a.yes_shares /\ b.yes_cost = a.yes_cost

\* one trader bought YES and later NO, both at a price that yields shares
C13_Witness ==
    /\ pc = "timing"
    /\ \E i, j \in 1..Len(trades) :
          /\ i < j
          /\ trades[i].user = trades[j].user
          /\ trades[i].outcome = "YES" /\ trades[j].outcome = "NO"
          /\ RGt(Shares(trades[i]), R0) /\ RGt(Shares(trades[j]), R0)
          /\ RGt(PosAt(trades, j, trades[j].user).yes_shares, R0)
          /\ RGt(PosAt(trades, j, trades[j].user).no_shares, R0)

(***************************************************************************)
(* C14                                                                     *)
(***************************************************************************)
\* C14: the analyzers leave the shared collection and the reference
\* probability as loaded, and at every later point of the run each analyzer's
\* stored output equals what that analyzer yields when run again on the
\* collection (classify_traders on the output of estimate_pnl run again), so
\* a re-run in any order reproduces the first run.
C14_RerunIdentical ==
    /\ StageNo(pc) >= 1 => trades = doc.trades
    /\ PnlDone => pnl = estimate_pnl(doc.trades, current_prob)
    /\ TimingDone => timing = analyze_timing(doc.trades)
    /\ ImpactDone => impact = analyze_market_impact(doc.trades)
    /\ PositionsDone => positions = analyze_position_changes(doc.trades)
    /\ ClassifyDone =>
          classifications =
              classify_traders(doc.trades, estimate_pnl(doc.trades, current_prob))

\* the run has finished on a collection that is not in timestamp order and
\* has a trader in every analyzer's output
C14_Witness ==
    /\ pc = "done"
    /\ trades # SortByTimestamp(trades)
    /\ positions # <<>> /\ pnl # <<>> /\ timing.rows # <<>>
    /\ impact # <<>> /\ classifications # <<>>

(***************************************************************************)
(* C15                                                                     *)
(***************************************************************************)
MaxReportTrades == 3

\* (outcome, amount, prob_before, prob_after)
ReportSides == {<<"YES", 100, 25, 30>>, <<"NO", 50, 30, 20>>}

ReportRecords ==
    {Trade(u, x[2], x[1], x[3], x[4], 1, FALSE, {}) : u \in {1, 2, 3}, x \in ReportSides}

\* trader 3 trades once, trader 2 twice on one side, trader 1 YES, NO, YES;
\* listed so that no analyzer's output order is the order of first appearance
ReportScenario ==
    <<Trade(3, 50, "NO", 30, 20, 1, FALSE, {}),
      Trade(2, 100, "YES", 25, 30, 2, FALSE, {}),
      Trade(1, 100, "YES", 25, 30, 3, FALSE, {}),
      Trade(1, 50, "NO", 30, 20, 4, FALSE, {}),
      Trade(2, 100, "YES", 25, 30, 5, FALSE, {}),
      Trade(1, 100, "YES", 25, 30, 6, FALSE, {})>>

ReportDocs ==
    {OkDoc(ts, 50) : ts \in SeqsUpTo(ReportRecords, MaxReportTrades)}
    \cup {OkDoc(ReportScenario, 50)}
    \cup BadDocs

\* --top values: negative, zero, below, at and above the number of traders
ReportTops == {-1, 0, 1, 2, 20}

ReportArgs == {Args(TRUE, Half, "all", n) : n \in ReportTops}

InitReport == InitWith(ReportDocs, ReportArgs)
SpecReport == InitReport /\ [][Next]_vars

\* the list holds at most N entries
AtMost(xs, N) == \A k \in 1..Len(xs) : k <= N

\* b is the N first of the rows `all` ranked by key (bk, ak: the keys of b
\* and of all; desc: highest first): at most N rows of `all`, all of them when
\* there are fewer than N, in rank order, none ranked below a row left out
IsTopN(b, all, bk, ak, N, desc) ==
    LET Ahead(x, y) == IF desc THEN RGe(x, y) ELSE RLe(x, y)
    IN  /\ AtMost(b, N)
        /\ Len(b) = Len(all) \/ Len(b) >= N
        /\ \A i \in 1..Len(b) : \E j \in 1..Len(all) : all[j] = b[i]
        /\ \A i, j \in 1..Len(b) : b[i].user = b[j].user => i = j
        /\ \A i \in 1..Len(b) : \A j \in 1..Len(b) : i < j => Ahead(bk[i], bk[j])
        /\ \A j \in 1..Len(all) :
              (\A i \in 1..Len(b) : b[i].user # all[j].user) =>
                  \A i \in 1..Len(b) : Ahead(bk[i], ak[j])

\* C15 as stated: for every --top value N the five lists of the full report
\* hold at most N entries; pnl_leaderboard is the N highest estimated_pnl
\* records, biggest_losers the N lowest in ascending order, market_movers the
\* N highest total-impact records, position_flippers only is_flipper records,
\* trader_classifications the N highest-volume records.
C15_BoundedLeaderboards ==
    (pc = "done" /\ output.kind = "all") =>
        LET N == args.top
            top == output.pnl_leaderboard
            low == output.biggest_losers
            mov == output.market_movers
            flp == output.position_flippers
            cls == output.trader_classifications
        IN  /\ IsTopN(top, pnl, [i \in 1..Len(top) |-> top[i].estimated_pnl],
                       [i \in 1..Len(pnl) |-> pnl[i].estimated_pnl], N, TRUE)
            /\ IsTopN(low, pnl, [i \in 1..Len(low) |-> low[i].estimated_pnl],
                       [i \in 1..Len(pnl) |-> pnl[i].estimated_pnl], N, FALSE)
            /\ IsTopN(mov, impact, [i \in 1..Len(mov) |-> mov[i].total_impact_pct],
                       [i \in 1..Len(impact) |-> impact[i].total_impact_pct], N, TRUE)
            /\ AtMost(flp, N)
            /\ \A i \in 1..Len(flp) :
                  flp[i].is_flipper /\ \E j \in 1..Len(positions) : positions[j] = flp[i]
            /\ IsTopN(cls, classifications, [i \in 1..Len(cls) |-> cls[i].volume],
                       [i \in 1..Len(classifications) |-> classifications[i].volume],
                       N, TRUE)

(***************************************************************************)
(* C16                                                                     *)
(***************************************************************************)
\* each key is >= the key of the next entry
NonIncreasing(keys) ==
    \A i \in 1..Len(keys) : i < Len(keys) => RGe(keys[i], keys[i + 1])

\* C16: the output of estimate_pnl is ordered by estimated_pnl, that of
\* analyze_position_changes by flips, that of analyze_market_impact by total
\* impact and that of classify_traders by volume, each non-increasing: every
\* entry's sort key is >= the key of the entry after it.
C16_OutputsOrdered ==
    /\ PnlDone =>
          NonIncreasing([i \in 1..Len(pnl) |-> pnl[i].estimated_pnl])
    /\ PositionsDone =>
          NonIncreasing([i \in 1..Len(positions) |-> R(positions[i].flips)])
    /\ ImpactDone =>
          NonIncreasing([i \in 1..Len(impact) |-> impact[i].total_impact_pct])
    /\ ClassifyDone =>
          NonIncreasing([i \in 1..Len(classifications) |-> classifications[i].volume])

\* all four lists hold entries with different keys, and each starts with a
\* trader who is not the first trader of the collection
C16_Witness ==
    /\ ClassifyDone
    /\ Len(pnl) = 3 /\ RGt(pnl[1].estimated_pnl, pnl[3].estimated_pnl)
    /\ Len(positions) = 2 /\ positions[1].flips > positions[2].flips
    /\ Len(impact) = 3 /\ RGt(impact[1].total_impact_pct, impact[3].total_impact_pct)
    /\ Len(classifications) = 3
    /\ RGt(classifications[1].volume, classifications[3].volume)
    /\ \A u \in {pnl[1].user, positions[1].user, impact[1].user,
                  classifications[1].user} : u # trades[1].user

(***************************************************************************)
(* C17                                                                     *)
(***************************************************************************)
MaxWhaleTraders == 13

\* the volume of trader j of n under pattern k: all equal, equal in pairs,
\* all different (largest first), or repeating in threes
WhaleVolume(n, j, k) ==
    CASE k = 1 -> 1000
      [] k = 2 -> 1000 + 20 * ((j - 1) \div 2)
      [] k = 3 -> 1000 + 20 * (n - j)
      [] OTHER -> 1000 + 20 * (j % 3)

\* n traders 101.., each with one YES and one NO trade of half the volume at
\* 50%, so that volume alone decides the label list
WhaleCrowd(n, k) ==
    [i \in 1..(2 * n) |->
        LET j == (i + 1) \div 2
        IN  Trade(100 + j, WhaleVolume(n, j, k) \div 2,
                  IF i % 2 = 1 THEN "YES" ELSE "NO", 50, 50, 1, FALSE, {})]

WhaleDocs ==
    {OkDoc(WhaleCrowd(n, k), 50) : n \in 0..MaxWhaleTraders, k \in 1..4} \cup BadDocs

WhaleArgs == {Args(TRUE, Half, o, 20) : o \in {"classify", "all"}}

InitWhale == InitWith(WhaleDocs, WhaleArgs)
SpecWhale == InitWhale /\ [][Next]_vars

\* the per-trader volumes classify_traders collects, in order of first trade
StatsVolumes(ts) ==
    LET st == StatsAfter(ts, Len(ts))
    IN  [i \in 1..Len(st) |-> st[i].volume]

\* C17: whale_threshold is the volume at 0-based rank 10 of the traders'
\* volumes in descending order (at least 11 traders reach it, at most 10
\* exceed it); with fewer than 11 traders it is the smallest trader volume,
\* with none it is 0; the index read is within the list for every number of
\* traders; and a trader is labelled WHALE exactly when reaching it.
C17_WhaleThreshold ==
    ClassifyDone =>
        LET vols == StatsVolumes(trades)
            n == Len(vols)
            wt == WhaleThreshold(vols)
            us == Traders(trades)
        IN  /\ n = Cardinality(us)
            /\ n = 0 => wt = 0
            /\ n > 0 => Min(WhaleRank, n - 1) \in 0..(n - 1)
            /\ wt = VolumeAtRank(WhaleRank)
            /\ (n > 0 /\ n <= WhaleRank) =>
                  /\ \A u \in us : Volume(u) >= wt
                  /\ \E u \in us : Volume(u) = wt
            /\ n > WhaleRank =>
                  /\ Cardinality({u \in us : Volume(u) >= wt}) >= WhaleRank + 1
                  /\ Cardinality({u \in us : Volume(u) > wt}) <= WhaleRank
                  /\ \E u \in us : Volume(u) = wt
            /\ \A i \in 1..Len(classifications) :
                  Has(classifications[i].types, "WHALE")
                      <=> Volume(classifications[i].user) >= wt

\* more traders than the rank: the threshold lies above the smallest volume
\* and below the largest
C17_Witness ==
    /\ ClassifyDone
    /\ Len(StatsVolumes(trades)) > WhaleRank + 1
    /\ \E u \in Traders(trades) : Volume(u) < WhaleThreshold(StatsVolumes(trades))
    /\ \E u \in Traders(trades) : Volume(u) > WhaleThreshold(StatsVolumes(trades))

(***************************************************************************)
(* C18                                                                     *)
(***************************************************************************)
\* no analyzer has produced anything and nothing was emitted
NothingRan ==
    /\ pnl = <<>> /\ timing = NoTiming /\ impact = <<>>
    /\ positions = <<>> /\ classifications = <<>> /\ output = NoOutput

\* C18: when the document is unreadable, absent, not parseable or lacks the
\* trades collection (or the summary), the run ends in an error raised by the
\* loading step with no analyzer invoked; in every run an analyzer is
\* reached, or has produced its output, only after a successful load of that
\* document's trades.
C18_FatalBeforeAnalyzers ==
    /\ doc.kind # "ok" =>
          /\ pc \in {"start", "error"}
          /\ pc = "error" => error \in {"OSError", "ValueError", "KeyError"}
          /\ NothingRan
    /\ StageNo(pc) >= 1 => doc.kind = "ok" /\ trades = doc.trades
    /\ ~NothingRan => doc.kind = "ok" /\ trades = doc.trades

\* the run on a document without a trades collection has stopped
C18_Witness ==
    doc.kind = "no_trades" /\ pc = "error" /\ error = "KeyError" /\ NothingRan

(***************************************************************************)
(* C19                                                                     *)
(***************************************************************************)
\* rows holds exactly one entry for every trader of us and none for others
OnePerTrader(rows, us) ==
    /\ \A u \in us : Cardinality({i \in 1..Len(rows) : rows[i].user = u}) = 1
    /\ \A i \in 1..Len(rows) : rows[i].user \in us

RowOf(rows, u) == rows[CHOOSE i \in 1..Len(rows) : rows[i].user = u]

\* C19: estimate_pnl, analyze_timing, analyze_market_impact and
\* classify_traders each report exactly one entry per trader with at least
\* one non-redemption trade and nobody else; analyze_position_changes reports
\* exactly one entry per trader with at least two and omits the others
\* without raising; per trader the trade counts of estimate_pnl,
\* analyze_market_impact and classify_traders agree, and the volume of
\* classify_traders equals the total_cost of estimate_pnl.
C19_Coverage ==
    LET us == Traders(trades)
        us2 == {u \in us : TradeCount(u) >= 2}
    IN  /\ doc.kind = "ok" => pc # "error"
        /\ PnlDone => OnePerTrader(pnl, us)
        /\ TimingDone => OnePerTrader(timing.rows, us)
        /\ ImpactDone => OnePerTrader(impact, us)
        /\ PositionsDone => OnePerTrader(positions, us2)
        /\ ClassifyDone =>
              /\ OnePerTrader(classifications, us)
              /\ \A u \in us :
                    /\ RowOf(pnl, u).trade_count = TradeCount(u)
                    /\ RowOf(impact, u).trade_count = RowOf(pnl, u).trade_count
                    /\ RowOf(classifications, u).trades = RowOf(pnl, u).trade_count
                    /\ RowOf(classifications, u).volume = RowOf(pnl, u).total_cost

\* all analyzers have run on a collection with a one-trade trader, left out
\* by analyze_position_changes, and a trader with two trades, who is reported
C19_Witness ==
    /\ ClassifyDone
    /\ \E u \in Traders(trades) :
          /\ TradeCount(u) = 1
          /\ \A i \in 1..Len(positions) : positions[i].user # u
    /\ \E i \in 1..Len(positions) : TradeCount(positions[i].user) = 2
    /\ Len(pnl) = 2 /\ Len(classifications) = 2

(***************************************************************************)
(* C20                                                                     *)
(***************************************************************************)
\* the traders labelled WHALE in the output
WhalesOf(rows) == {rows[i].user : i \in {k \in 1..Len(rows) : Has(rows[k].types, "WHALE")}}

\* C20: with 11 or fewer traders whale_threshold is the smallest trader
\* volume, every trader is labelled WHALE and none RETAIL; with more than 11
\* traders at least 11 are labelled WHALE.
C20_SmallMarketsAllWhales ==
    ClassifyDone =>
        LET us == Traders(trades)
            n == Cardinality(us)
            wt == WhaleThreshold(StatsVolumes(trades))
        IN  /\ (n >= 1 /\ n <= 11) =>
                  /\ \A u \in us : Volume(u) >= wt
                  /\ \E u \in us : Volume(u) = wt
                  /\ WhalesOf(classifications) = us
                  /\ \A i \in 1..Len(classifications) :
                        ~Has(classifications[i].types, "RETAIL")
            /\ n > 11 => Cardinality(WhalesOf(classifications)) >= 11

\* eleven traders with different volumes are all labelled WHALE
C20_Witness ==
    /\ ClassifyDone
    /\ Cardinality(Traders(trades)) = 11
    /\ \E u, v \in Traders(trades) : Volume(u) # Volume(v)
    /\ WhalesOf(classifications) = Traders(trades)

(***************************************************************************)
(* C21                                                                     *)
(***************************************************************************)
\* C21: every entry of analyze_position_changes over YES/NO trades has
\* flips <= trade_count - 1, and first_position = final_position exactly
\* when flips is even (an odd flip count ends on the other side).
C21_FlipParity ==
    PositionsDone =>
        \A i \in 1..Len(positions) :
            LET r == positions[i]
            IN  /\ r.trade_count = TradeCount(r.user)
                /\ r.flips >= 0
                /\ r.flips <= r.trade_count - 1
                /\ (r.first_position = r.final_position) <=> (r.flips % 2 = 0)
                /\ r.flips % 2 = 1 => r.first_position # r.final_position

\* one trader flipped at every trade and ended on the other side, another
\* never flipped
C21_Witness ==
    /\ PositionsDone
    /\ \E i \in 1..Len(positions) :
          /\ positions[i].flips = 3 /\ positions[i].trade_count = 4
          /\ positions[i].first_position = "YES"
          /\ positions[i].final_position = "NO"
    /\ \E i \in 1..Len(positions) :
          /\ positions[i].flips = 0 /\ positions[i].trade_count = 3
          /\ positions[i].first_position = positions[i].final_position

(***************************************************************************)
(* C22                                                                     *)
(***************************************************************************)
LabelSet(types) == {types[i] : i \in 1..Len(types)}

\* the labels generate_viz.classify_trader gives trader u from the volume,
\* trade count, yes_pct and roi that classify_traders used, with the whale
\* threshold generate_html computes over the same traders' volumes
VizLabels(u) ==
    classify_trader(Volume(u), TradeCount(u), YesPct(pnl, u),
                    PnlField(pnl, u, "roi_pct", R0),
                    generate_html_whale_threshold(StatsVolumes(trades)))

\* C22: the two classifiers agree: over the same traders and the same
\* per-trader volume, trade count, yes_pct and roi, classify_traders and
\* generate_viz.classify_trader (with generate_html's whale threshold) give
\* every trader the same label set.
C22_ClassifiersAgree ==
    ClassifyDone =>
        \A i \in 1..Len(classifications) :
            LET r == classifications[i]
            IN  LabelSet(r.types) = LabelSet(VizLabels(r.user))

====
